---------------------------- MODULE Spec2Model ----------------------------
(***************************************************************************)
(* Sentinel-Fusion-Sim: the TargetDetector of                              *)
(* TargetDetectionSystem/src/TargetDetector.cpp as a state machine.        *)
(*                                                                         *)
(* Number representation (all values are exact integers):                  *)
(*   confidence, size, signal, noise_threshold   thousandths               *)
(*   brightness, contrast                        hundredths                *)
(*   temperature, coordinates, fusion_threshold  units                     *)
(*   velocity   as vel2 = velocity^2 * V2Scale, so that sqrt(..) stays     *)
(*              exact; comparisons velocity > c become vel2 > c*c*V2Scale  *)
(*   time       clock ticks of one second                                  *)
(***************************************************************************)
EXTENDS Integers, Sequences, FiniteSets, TLC

VARIABLES
    next_target_id,     \* std::atomic<int>
    fusion_threshold,
    noise_threshold,
    radar_status, thermal_status, optical_status,
    detected_targets,   \* std::vector<Target>
    target_history,     \* std::unordered_map<int, Target>
    last_metrics,       \* DetectionMetrics
    total_detections,
    now,                \* the system clock
    call,               \* the detect call in progress (its locals), or Idle
    current_targets,    \* the list the caller holds (last list returned)
    ret,                \* what the last completed operation was and returned
    assigned,           \* ids handed out by fetch_add since construction
    shiftUB,            \* what the build makes of the int shift by 42
    radar_targets, thermal_targets, optical_targets,   \* inputs of fuseSensors
    fused_targets       \* the list fuseSensors returned

detector == <<next_target_id, fusion_threshold, noise_threshold, radar_status,
              thermal_status, optical_status, detected_targets, target_history,
              last_metrics, total_detections>>
fuseVars == <<radar_targets, thermal_targets, optical_targets, fused_targets>>
vars == <<detector, now, call, current_targets, ret, assigned, shiftUB, fuseVars>>

----------------------------------------------------------------------------
(* Bounds of the model *)
MaxTime == 1          \* the clock stops ticking here
MaxIds == 2           \* ids handed out between two clears
MaxTotal == 1         \* addTarget calls in a run
MaxAdds == 2          \* addTarget calls in a run of ClearSpec
MaxBatch == 2         \* readings in a batch

(* Program constants *)
LOW == 0
MEDIUM == 1
HIGH == 2
CRITICAL == 3
IntMax == 2147483647
IntMin == -2147483647 - 1
V2Scale == 90000      \* 300^2: 0.1, 0.05 and 0.08 times 300 are integers
DefaultFusion == 5
DefaultNoise == 300
MinSize == 100                \* target.size > 0.1
ThermalMinTemp == 25          \* temperature > 25.0
ThermalBaseTemp == 20         \* temperature - 20.0
OpticalMinConf == 2000        \* brightness * contrast > 0.2, in 1/10000
RadarVelFactor2 == 900        \* (0.1 * 300)^2
ThermalVelFactor2 == 225      \* (0.05 * 300)^2
OpticalVelFactor2 == 576      \* (0.08 * 300)^2
ThermalFuseCap == 900         \* std::min(0.9, ..)
OpticalFuseCap == 950         \* std::min(0.95, ..)

TargetTypes == {"RADAR", "THERMAL", "OPTICAL", "FUSED"}
SensorStatuses == {"ACTIVE", "INACTIVE", "MAINTENANCE", "ERROR"}

Min(a, b) == IF a < b THEN a ELSE b
Max(a, b) == IF a > b THEN a ELSE b

----------------------------------------------------------------------------
(* Target and its constructor (detection_time = system_clock::now()) *)
Target(id, x, y, z, vel2, size, confidence, type, threat_level, description, t) ==
    [id |-> id, x |-> x, y |-> y, z |-> z, vel2 |-> vel2, size |-> size,
     confidence |-> confidence, type |-> type, threat_level |-> threat_level,
     detection_time |-> t, description |-> description]

(* calculateThreatLevel *)
calculateThreatLevelNonStrict(vel2, confidence) ==
    IF vel2 >= 100 * 100 * V2Scale \/ confidence >= 900 THEN CRITICAL
    ELSE IF vel2 >= 50 * 50 * V2Scale \/ confidence >= 700 THEN HIGH
    ELSE IF vel2 >= 20 * 20 * V2Scale \/ confidence >= 500 THEN MEDIUM
    ELSE LOW
calculateThreatLevel(vel2, confidence) ==
    IF vel2 > 100 * 100 * V2Scale \/ confidence > 900 THEN CRITICAL
    ELSE IF vel2 > 50 * 50 * V2Scale \/ confidence > 700 THEN HIGH
    ELSE IF vel2 > 20 * 20 * V2Scale \/ confidence > 500 THEN MEDIUM
    ELSE LOW

(* isValidTarget *)
isValidTargetNoSize(target, nt) == target.confidence > nt
isValidTarget(target, nt) == target.confidence > nt /\ target.size > MinSize

(* The accept tests of the three extractor lambdas *)
RadarAcceptGeq(signal_strength, nt) == signal_strength >= nt
RadarAccept(signal_strength, nt) == signal_strength > nt
ThermalAccept(temperature) == temperature > ThermalMinTemp
OpticalAccept(optical_confidence) == optical_confidence > OpticalMinConf

(* The candidate each lambda builds from one reading (id 0), before the     *)
(* validity test: a sequence of zero or one Target.                         *)
RadarCandidateNoClamp(reading, nt, t) ==
    IF Len(reading) >= 4 /\ RadarAccept(reading[4], nt)
    THEN LET x == reading[1]
             y == reading[2]
             signal_strength == reading[4]
             vel2 == RadarVelFactor2 * (x * x + y * y)
             confidence == (signal_strength * 3) \div 2
         IN <<Target(0, x, y, reading[3], vel2, signal_strength * 2, confidence,
                     "RADAR", calculateThreatLevel(vel2, confidence),
                     <<"Radar detection">>, t)>>
    ELSE <<>>
RadarCandidate(reading, nt, t) ==
    IF Len(reading) >= 4 /\ RadarAccept(reading[4], nt)
    THEN LET x == reading[1]
             y == reading[2]
             signal_strength == reading[4]
             vel2 == RadarVelFactor2 * (x * x + y * y)
             confidence == Min((signal_strength * 3) \div 2, 1000)
         IN <<Target(0, x, y, reading[3], vel2, signal_strength * 2, confidence,
                     "RADAR", calculateThreatLevel(vel2, confidence),
                     <<"Radar detection">>, t)>>
    ELSE <<>>

ThermalCandidate(reading, nt, t) ==
    IF Len(reading) >= 4 /\ ThermalAccept(reading[4])
    THEN LET x == reading[1]
             y == reading[2]
             temp_diff == reading[4] - ThermalBaseTemp
             vel2 == ThermalVelFactor2 * (x * x + y * y)
             confidence == Min(50 * temp_diff, 1000)
         IN <<Target(0, x, y, reading[3], vel2, Max(300 * temp_diff, 500), confidence,
                     "THERMAL", calculateThreatLevel(vel2, confidence),
                     <<"Thermal detection">>, t)>>
    ELSE <<>>

OpticalCandidate(reading, nt, t) ==
    IF Len(reading) >= 5 /\ OpticalAccept(reading[4] * reading[5])
    THEN LET x == reading[1]
             y == reading[2]
             brightness == reading[4]
             optical_confidence == brightness * reading[5]
             vel2 == OpticalVelFactor2 * (x * x + y * y)
             confidence == Min(optical_confidence \div 5, 1000)
         IN <<Target(0, x, y, reading[3], vel2, 30 * brightness, confidence,
                     "OPTICAL", calculateThreatLevel(vel2, confidence),
                     <<"Optical detection">>, t)>>
    ELSE <<>>

Candidate(type, reading, nt, t) ==
    CASE type = "RADAR" -> RadarCandidate(reading, nt, t)
      [] type = "THERMAL" -> ThermalCandidate(reading, nt, t)
      [] OTHER -> OpticalCandidate(reading, nt, t)

(* The lambda of one reading up to the lock: the candidate, if it is valid *)
Extract(type, reading, nt, t) ==
    LET c == Candidate(type, reading, nt, t)
    IN IF c # <<>> /\ isValidTarget(c[1], nt) THEN c ELSE <<>>

(* next_target_id.fetch_add(1): an atomic<int> wraps *)
FetchAddStuck(v) == v
FetchAdd(v) == IF v = IntMax THEN IntMin ELSE v + 1


----------------------------------------------------------------------------
(* Inputs of the model *)
RadarBatches ==
    { <<>>,
      << <<0, 0, 0, 900>>, <<1, 0, 0, 950>> >>,     \* Scenario A
      << <<3, 4, 0, 300>>, <<3, 4, 0, 400>> >>,     \* signal at and above 0.3
      << <<0, 7, 0, -500>>, <<1, 1, 1>> >> }        \* negative signal, short tuple
ThermalBatches == { <<>>, << <<3, 4, 0, 28>>, <<0, 0, 0, 25>> >> }
OpticalBatches == { <<>>, << <<3, 4, 0, 80, 60>>, <<1, 1, 1, 90>> >>,
                    << <<0, 0, 0, 40, 50>> >> }
Batches(type) ==
    CASE type = "RADAR" -> RadarBatches
      [] type = "THERMAL" -> ThermalBatches
      [] OTHER -> OpticalBatches
NoiseValues == {-1000, 300, 1500}           \* -1.0 and 1.5 are outside [0,1]
FusionValues == {0, 3, 100}                 \* 0 and 100 are outside (0,100)
TimeDeltas == {-1, 0, 1}
Moves == { <<30, 40, 0>>, <<0, 0, 0>> }     \* where a caller re-observes a target

----------------------------------------------------------------------------
Idle == [state |-> "idle"]
NoMetrics == [processing_time_ms |-> 0, targets_detected |-> 0,
              average_confidence |-> 0, false_positives |-> 0, missed_targets |-> 0]
EmptyHistory == [i \in {} |-> 0]
Ret(op, arg, before, result, srcs) ==
    [op |-> op, arg |-> arg, before |-> before, result |-> result, srcs |-> srcs]

(* TargetDetector::TargetDetector(fusion_thresh, noise_thresh) *)
Constructed(ft, nt) ==
    /\ next_target_id = 1
    /\ fusion_threshold = ft
    /\ noise_threshold = nt
    /\ radar_status = "ACTIVE"
    /\ thermal_status = "ACTIVE"
    /\ optical_status = "ACTIVE"
    /\ detected_targets = <<>>
    /\ target_history = EmptyHistory
    /\ last_metrics = NoMetrics
    /\ total_detections = 0

Init ==
    /\ Constructed(DefaultFusion, DefaultNoise)
    /\ now = 0
    /\ call = Idle
    /\ current_targets = <<>>
    /\ ret = Ret("construct", 0, <<>>, <<>>, <<>>)
    /\ assigned = [log |-> <<>>, retired |-> {}]
    /\ shiftUB \in {"wide"}
    /\ radar_targets = <<>>
    /\ thermal_targets = <<>>
    /\ optical_targets = <<>>
    /\ fused_targets = <<>>

StatusOfAlwaysActive(type) == "ACTIVE"
StatusOf(type) ==
    CASE type = "RADAR" -> radar_status
      [] type = "THERMAL" -> thermal_status
      [] OTHER -> optical_status

RECURSIVE SumConfidenceTo(_, _)
SumConfidenceTo(ts, k) ==
    IF k = 0 THEN 0 ELSE ts[k].confidence + SumConfidenceTo(ts, k - 1)

SumConfidence(ts) == SumConfidenceTo(ts, Len(ts))

(* The list a detect call returns when its tasks run in the order of the   *)
(* batch, ids from id on                                                    *)
RECURSIVE Detected(_, _, _, _, _)
Detected(type, data, nt, id, t) ==
    IF data = <<>> THEN <<>>
    ELSE LET e == Extract(type, Head(data), nt, t)
         IN IF e = <<>> THEN Detected(type, Tail(data), nt, id, t)
            ELSE <<[e[1] EXCEPT !.id = id]>> \o Detected(type, Tail(data), nt, id + 1, t)

(* detect{Radar,Thermal,Optical}Targets: entry, with the early return *)
DetectBegin(type, data) ==
    /\ call.state = "idle"
    /\ next_target_id + Len(Detected(type, data, noise_threshold, 0, now)) <= MaxIds + 1
    /\ IF data = <<>> \/ StatusOf(type) # "ACTIVE"
       THEN /\ current_targets' = <<>>
            /\ ret' = Ret("detect", type, data, <<>>, <<>>)
            /\ call' = call
       ELSE /\ call' = [state |-> "running", type |-> type, data |-> data,
                        pending |-> 1..Len(data), targets |-> <<>>, srcs |-> <<>>,
                        start_time |-> now]
            /\ UNCHANGED <<current_targets, ret>>
    /\ UNCHANGED <<detector, now, assigned, shiftUB, fuseVars>>

(* One task of std::for_each(par_unseq, ..): the lambda on reading i.  The  *)
(* id is taken and the Target appended under target_mutex.                  *)
ExtractTask(i) ==
    /\ call.state = "running"
    /\ i \in call.pending
    /\ LET e == Extract(call.type, call.data[i], noise_threshold, now)
       IN IF e # <<>>
          THEN /\ next_target_id' = FetchAdd(next_target_id)
               /\ call' = [call EXCEPT !.pending = @ \ {i},
                              !.targets = Append(@, [e[1] EXCEPT !.id = next_target_id]),
                              !.srcs = Append(@, i)]
               /\ assigned' = [assigned EXCEPT !.log = Append(@, next_target_id)]
          ELSE /\ call' = [call EXCEPT !.pending = @ \ {i}]
               /\ UNCHANGED <<next_target_id, assigned>>
    /\ UNCHANGED <<fusion_threshold, noise_threshold, radar_status, thermal_status,
                   optical_status, detected_targets, target_history, last_metrics,
                   total_detections, now, current_targets, ret, shiftUB, fuseVars>>

(* After the join: last_metrics and the return *)
DetectEnd ==
    /\ call.state = "running"
    /\ call.pending = {}
    /\ last_metrics' =
           [processing_time_ms |-> (now - call.start_time) * 1000,
            targets_detected |-> Len(call.targets),
            average_confidence |->
                IF call.targets = <<>> THEN 0
                ELSE SumConfidence(call.targets) \div Len(call.targets),
            false_positives |-> 0, missed_targets |-> 0]
    /\ current_targets' = call.targets
    /\ ret' = Ret("detect", call.type, call.data, call.targets, call.srcs)
    /\ call' = Idle
    /\ UNCHANGED <<next_target_id, fusion_threshold, noise_threshold, radar_status,
                   thermal_status, optical_status, detected_targets, target_history,
                   total_detections, now, assigned, shiftUB, fuseVars>>

(* system_clock advances *)
Tick ==
    /\ now < MaxTime
    /\ now' = now + 1
    /\ UNCHANGED <<detector, call, current_targets, ret, assigned, shiftUB, fuseVars>>


(* The loop body of trackTargets for one target: the target as updated,     *)
(* against the history as the loop has left it so far.  time_delta is not   *)
(* read: dt is the difference of the two detection_time stamps.             *)
TrackOne(target, hist, t) ==
    LET moved ==
            IF target.id \in DOMAIN hist
            THEN LET old_target == hist[target.id]
                     dt == target.detection_time - old_target.detection_time
                     dx == target.x - old_target.x
                     dy == target.y - old_target.y
                     dz == target.z - old_target.z
                 IN IF dt > 0
                    THEN [target EXCEPT !.vel2 =
                             (V2Scale * (dx * dx + dy * dy + dz * dz)) \div (dt * dt)]
                    ELSE target
            ELSE target
    IN [moved EXCEPT !.detection_time = t]

HistoryPutIfAbsent(hist, target) ==
    IF target.id \in DOMAIN hist THEN hist
    ELSE [i \in DOMAIN hist \cup {target.id} |-> IF i = target.id THEN target ELSE hist[i]]

HistoryPut(hist, target) ==
    [i \in DOMAIN hist \cup {target.id} |-> IF i = target.id THEN target ELSE hist[i]]

RECURSIVE TrackLoop(_, _, _, _)
TrackLoop(ts, k, hist, t) ==
    IF k > Len(ts) THEN [targets |-> ts, history |-> hist]
    ELSE LET tracked == TrackOne(ts[k], hist, t)
         IN TrackLoop([ts EXCEPT ![k] = tracked], k + 1, HistoryPut(hist, tracked), t)

(* trackTargets(current_targets, time_delta) *)
TrackTargets(time_delta) ==
    /\ call.state = "idle"
    /\ LET r == TrackLoop(current_targets, 1, target_history, now)
       IN IF current_targets = <<>>
          THEN UNCHANGED <<current_targets, target_history>>
          ELSE /\ current_targets' = r.targets
               /\ target_history' = r.history
    /\ ret' = Ret("trackTargets", time_delta, current_targets, <<>>, <<>>)
    /\ UNCHANGED <<next_target_id, fusion_threshold, noise_threshold, radar_status,
                   thermal_status, optical_status, detected_targets, last_metrics,
                   total_detections, now, call, assigned, shiftUB, fuseVars>>

(* The caller observes target i of its list again: a Target built with the  *)
(* public constructor, same id, at a new position, stamped now.             *)
ConstructTarget(i, pos) ==
    /\ call.state = "idle"
    /\ i \in 1..Len(current_targets)
    /\ LET c == current_targets[i]
       IN current_targets' = [current_targets EXCEPT ![i] =
              Target(c.id, pos[1], pos[2], pos[3], c.vel2, c.size, c.confidence,
                     c.type, c.threat_level, c.description, now)]
    /\ ret' = Ret("construct", i, current_targets, <<>>, <<>>)
    /\ UNCHANGED <<detector, now, call, assigned, shiftUB, fuseVars>>

(* getTargetCount() *)
getTargetCount(targets) == Len(targets)

(* addTarget(target), for a caller that adds at most cap targets in a run *)
AddTargetWithin(i, cap) ==
    /\ call.state = "idle"
    /\ i \in 1..Len(current_targets)
    /\ total_detections < cap
    /\ detected_targets' = Append(detected_targets, current_targets[i])
    /\ total_detections' = total_detections + 1
    /\ ret' = Ret("addTarget", i, <<>>, <<>>, <<>>)
    /\ UNCHANGED <<next_target_id, fusion_threshold, noise_threshold, radar_status,
                   thermal_status, optical_status, target_history, last_metrics,
                   now, call, current_targets, assigned, shiftUB, fuseVars>>

AddTarget(i) == AddTargetWithin(i, MaxTotal)

(* A clearTargets that forgets the lists but keeps the id counter running.  *)
ClearTargetsKeepsIds ==
    /\ call.state = "idle"
    /\ detected_targets' = <<>>
    /\ target_history' = EmptyHistory
    /\ ret' = Ret("clearTargets", 0, <<>>, <<>>, <<>>)
    /\ UNCHANGED <<next_target_id, fusion_threshold, noise_threshold, radar_status,
                   thermal_status, optical_status, last_metrics, total_detections,
                   now, call, current_targets, assigned, shiftUB, fuseVars>>

(* clearTargets() *)
ClearTargets ==
    /\ call.state = "idle"
    /\ detected_targets' = <<>>
    /\ target_history' = EmptyHistory
    /\ next_target_id' = 1
    /\ assigned' = [log |-> <<>>,
                    retired |-> assigned.retired \cup {assigned.log[k] : k \in 1..Len(assigned.log)}]
    /\ ret' = Ret("clearTargets", 0, <<>>, <<>>, <<>>)
    /\ UNCHANGED <<fusion_threshold, noise_threshold, radar_status, thermal_status,
                   optical_status, last_metrics, total_detections, now, call,
                   current_targets, shiftUB, fuseVars>>

(* setFusionThreshold / setNoiseThreshold *)
NewThresholdChecked(old, threshold, lo, hi, loStrict, hiStrict) ==
    IF (IF loStrict THEN threshold > lo ELSE threshold >= lo)
       /\ (IF hiStrict THEN threshold < hi ELSE threshold <= hi)
    THEN threshold ELSE old
NewThreshold(old, threshold, lo, hi, loStrict, hiStrict) == threshold

SetFusionThreshold(threshold) ==
    /\ call.state = "idle"
    /\ fusion_threshold' = NewThreshold(fusion_threshold, threshold, 0, 100, TRUE, TRUE)
    /\ ret' = Ret("setFusionThreshold", threshold, <<>>, <<>>, <<>>)
    /\ UNCHANGED <<next_target_id, noise_threshold, radar_status, thermal_status,
                   optical_status, detected_targets, target_history, last_metrics,
                   total_detections, now, call, current_targets, assigned, shiftUB,
                   fuseVars>>

SetNoiseThreshold(threshold) ==
    /\ call.state = "idle"
    /\ noise_threshold' = NewThreshold(noise_threshold, threshold, 0, 1000, FALSE, FALSE)
    /\ ret' = Ret("setNoiseThreshold", threshold, <<>>, <<>>, <<>>)
    /\ UNCHANGED <<next_target_id, fusion_threshold, radar_status, thermal_status,
                   optical_status, detected_targets, target_history, last_metrics,
                   total_detections, now, call, current_targets, assigned, shiftUB,
                   fuseVars>>

(* setSensorStatus(type, status) *)
SetSensorStatus(type, status) ==
    /\ call.state = "idle"
    /\ radar_status' = IF type = "RADAR" THEN status ELSE radar_status
    /\ thermal_status' = IF type = "THERMAL" THEN status ELSE thermal_status
    /\ optical_status' = IF type = "OPTICAL" THEN status ELSE optical_status
    /\ ret' = Ret("setSensorStatus", type, <<>>, <<>>, <<>>)
    /\ UNCHANGED <<next_target_id, fusion_threshold, noise_threshold, detected_targets,
                   target_history, last_metrics, total_detections, now, call,
                   current_targets, assigned, shiftUB, fuseVars>>

(* The detector under detect calls, configuration and its result list.     *)
(* A call and the calls around it fall within one clock tick here; the      *)
(* clock advances in TrackSpec.                                             *)
Next ==
    \/ \E type \in {"RADAR", "THERMAL", "OPTICAL"} :
           \E data \in Batches(type) : DetectBegin(type, data)
    \/ \E i \in 1..MaxBatch : ExtractTask(i)
    \/ DetectEnd
    \/ \E i \in 1..MaxBatch : AddTarget(i)
    \/ ClearTargets
    \/ \E threshold \in NoiseValues : SetNoiseThreshold(threshold)

Spec == Init /\ [][Next]_vars

----------------------------------------------------------------------------
(* The tracker: a caller holding a detected list tracks it over the cycles  *)
TrackInputs ==
    { Detected("RADAR", data, DefaultNoise, 1, 0) : data \in
        { << <<0, 0, 0, 900>> >>, << <<0, 0, 0, 400>>, <<3, 4, 0, 400>> >> } }

TrackInit ==
    /\ Constructed(DefaultFusion, DefaultNoise)
    /\ now = 0
    /\ call = Idle
    /\ current_targets \in TrackInputs
    /\ ret = Ret("construct", 0, <<>>, <<>>, <<>>)
    /\ assigned = [log |-> <<>>, retired |-> {}]
    /\ shiftUB \in {"wide"}
    /\ radar_targets = <<>>
    /\ thermal_targets = <<>>
    /\ optical_targets = <<>>
    /\ fused_targets = <<>>

TrackNext ==
    \/ Tick
    \/ \E time_delta \in TimeDeltas : TrackTargets(time_delta)
    \/ \E i \in 1..MaxBatch : \E pos \in Moves : ConstructTarget(i, pos)
    \/ \E i \in 1..MaxBatch : AddTarget(i)
    \/ ClearTargets

TrackSpec == TrackInit /\ [][TrackNext]_vars


----------------------------------------------------------------------------
(* fuseSensors: the spatial hash.  A 64-bit key is kept as its three bit    *)
(* fields <<hi, mid, lo>> of 22, 21 and 21 bits (bits 42..63, 21..41 and    *)
(* 0..20), so that every operation on it is exact.                          *)
Two21 == 2097152
Two22 == 4194304

RECURSIVE BitOr(_, _)
BitOr(a, b) ==
    IF a = 0 THEN b
    ELSE IF b = 0 THEN a
    ELSE (IF a % 2 = 1 \/ b % 2 = 1 THEN 1 ELSE 0) + 2 * BitOr(a \div 2, b \div 2)

FloorDiv(a, b) == IF b > 0 THEN a \div b ELSE (-a) \div (-b)

(* static_cast<int>(std::floor(coord / grid_size)) *)
CellIndex(coord, grid_size) == FloorDiv(coord, grid_size)

(* (uint64_t(gx) << 42) | (uint64_t(gy) << 21) | uint64_t(gz), each int     *)
(* sign-extended to 64 bits before it is shifted                            *)
GridKey(gx, gy, gz) ==
    LET signHi(g) == IF g < 0 THEN Two22 - 1 ELSE 0
    IN [hi |-> BitOr(BitOr(gx % Two22, (gy \div Two21) % Two22), signHi(gz)),
        mid |-> BitOr(gy % Two21, (gz \div Two21) % Two21),
        lo |-> gz % Two21]

get_grid_hash(x, y, z, grid_size) ==
    GridKey(CellIndex(x, grid_size), CellIndex(y, grid_size), CellIndex(z, grid_size))

(* key + a * 2^42 + b * 2^21 + c modulo 2^64, for small a, b, c *)
KeyPlus(key, a, b, c) ==
    LET l == key.lo + c
        m == key.mid + b + (l \div Two21)
        h == key.hi + a + (m \div Two21)
    IN [hi |-> h % Two22, mid |-> m % Two21, lo |-> l % Two21]

(* hash + (dx << 42) + (dy << 21) + dz.  dx is an int, so dx << 42 shifts   *)
(* by more than the width of its type: undefined.  A build gives one of     *)
(*   "wide"    the shift as if done on 64 bits (what the line means),       *)
(*   "masked"  the count taken modulo 32 (x86 shl): dx << 10,               *)
(*   "zero"    every bit shifted out (a folded constant, ARM lsl).          *)
NearbyHash(hash, dx, dy, dz, ub) ==
    CASE ub = "wide" -> KeyPlus(hash, dx, dy, dz)
      [] ub = "masked" -> KeyPlus(hash, 0, dy, dz + dx * 1024)
      [] OTHER -> KeyPlus(hash, 0, dy, dz)

(* The 27 offsets in the order of the three nested loops *)
Offsets ==
    [n \in 1..27 |-> <<((n - 1) \div 9) - 1, (((n - 1) \div 3) % 3) - 1, ((n - 1) % 3) - 1>>]

Dist2(t1, t2) ==
    (t1.x - t2.x) * (t1.x - t2.x) + (t1.y - t2.y) * (t1.y - t2.y)
        + (t1.z - t2.z) * (t1.z - t2.z)

(* calculateDistance(t1, t2) < fusion_threshold *)
Within(t1, t2, ft) == ft > 0 /\ Dist2(t1, t2) < ft * ft

GridGet(grid, key) == IF key \in DOMAIN grid THEN grid[key] ELSE <<>>
GridPut(grid, key, idx) ==
    [k \in DOMAIN grid \cup {key} |-> IF k = key THEN Append(GridGet(grid, key), idx)
                                      ELSE grid[k]]

(* The indices the neighbour search meets, in the order it meets them *)
RECURSIVE ScanOrder(_, _, _, _)
ScanOrder(grid, hash, n, ub) ==
    IF n > 27 THEN <<>>
    ELSE GridGet(grid, NearbyHash(hash, Offsets[n][1], Offsets[n][2], Offsets[n][3], ub))
             \o ScanOrder(grid, hash, n + 1, ub)

(* Which targets a candidate of a pass may merge into *)
Mergeable(existing, pass) == pass = "OPTICAL" \/ existing.type = "RADAR"

RECURSIVE FirstMatch(_, _, _, _, _)
FirstMatch(order, fused, cand, pass, ft) ==
    IF order = <<>> THEN 0
    ELSE IF Mergeable(fused[Head(order)], pass) /\ Within(fused[Head(order)], cand, ft)
         THEN Head(order)
         ELSE FirstMatch(Tail(order), fused, cand, pass, ft)

(* The merge into the matched target *)
MergeThermalTakesPosition(radar, thermal) ==
    [radar EXCEPT !.confidence = Min(ThermalFuseCap, radar.confidence + (thermal.confidence * 3) \div 10),
                  !.threat_level = Max(radar.threat_level, thermal.threat_level),
                  !.type = "FUSED",
                  !.description = Append(radar.description, " + Thermal"),
                  !.x = thermal.x, !.y = thermal.y, !.z = thermal.z]
MergeThermalOpticalCap(radar, thermal) ==
    [radar EXCEPT !.confidence = Min(OpticalFuseCap, radar.confidence + (thermal.confidence * 3) \div 10),
                  !.threat_level = Max(radar.threat_level, thermal.threat_level),
                  !.type = "FUSED",
                  !.description = Append(radar.description, " + Thermal")]
MergeThermal(radar, thermal) ==
    [radar EXCEPT !.confidence = Min(ThermalFuseCap, radar.confidence + (thermal.confidence * 3) \div 10),
                  !.threat_level = Max(radar.threat_level, thermal.threat_level),
                  !.type = "FUSED",
                  !.description = Append(radar.description, " + Thermal")]

MergeOpticalAlwaysAppend(target, optical) ==
    [target EXCEPT !.confidence = Min(OpticalFuseCap, target.confidence + (optical.confidence * 2) \div 10),
                   !.threat_level = Max(target.threat_level, optical.threat_level),
                   !.type = "FUSED",
                   !.description = Append(target.description, " + Optical")]
MergeOptical(target, optical) ==
    [target EXCEPT !.confidence = Min(OpticalFuseCap, target.confidence + (optical.confidence * 2) \div 10),
                   !.threat_level = Max(target.threat_level, optical.threat_level),
                   !.type = "FUSED",
                   !.description = IF target.type # "FUSED"
                                   THEN Append(target.description, " + Optical")
                                   ELSE target.description]

(* The radar pass: every valid radar target into the list and the grid *)
RECURSIVE RadarPass(_, _, _, _)
RadarPass(radar, st, nt, ft) ==
    IF radar = <<>> THEN st
    ELSE IF isValidTarget(Head(radar), nt)
         THEN RadarPass(Tail(radar),
                        [fused |-> Append(st.fused, Head(radar)),
                         grid |-> GridPut(st.grid,
                                          get_grid_hash(Head(radar).x, Head(radar).y, Head(radar).z, ft),
                                          Len(st.fused) + 1),
                         trace |-> Append(st.trace, [pass |-> "RADAR", cand |-> Head(radar),
                                                     into |-> 0, before |-> Head(radar),
                                                     after |-> Head(radar)])],
                        nt, ft)
         ELSE RadarPass(Tail(radar), st, nt, ft)

(* What one valid candidate does to the list: merged into target idx, or   *)
(* appended and entered into the grid when the search found nothing (0).    *)
(* The trace keeps the matched target as it was and as it became.           *)
MergeStepAppendPerSlice(st, cand, pass, hash, idx) ==
    IF idx # 0
    THEN [fused |-> [st.fused EXCEPT ![idx] =
                        IF pass = "THERMAL" THEN MergeThermal(@, cand)
                        ELSE MergeOptical(@, cand)],
          grid |-> st.grid,
          trace |-> Append(st.trace, [pass |-> pass, cand |-> cand, into |-> idx,
                                      before |-> st.fused[idx],
                                      after |-> IF pass = "THERMAL"
                                                THEN MergeThermal(st.fused[idx], cand)
                                                ELSE MergeOptical(st.fused[idx], cand)])]
    ELSE [fused |-> st.fused \o <<cand, cand, cand>>,     \* once for each dx
          grid |-> GridPut(GridPut(GridPut(st.grid, hash, Len(st.fused) + 1),
                                   hash, Len(st.fused) + 2), hash, Len(st.fused) + 3),
          trace |-> Append(st.trace, [pass |-> pass, cand |-> cand, into |-> 0,
                                      before |-> cand, after |-> cand])]
MergeStep(st, cand, pass, hash, idx) ==
    IF idx # 0
    THEN [fused |-> [st.fused EXCEPT ![idx] =
                        IF pass = "THERMAL" THEN MergeThermal(@, cand)
                        ELSE MergeOptical(@, cand)],
          grid |-> st.grid,
          trace |-> Append(st.trace, [pass |-> pass, cand |-> cand, into |-> idx,
                                      before |-> st.fused[idx],
                                      after |-> IF pass = "THERMAL"
                                                THEN MergeThermal(st.fused[idx], cand)
                                                ELSE MergeOptical(st.fused[idx], cand)])]
    ELSE [fused |-> Append(st.fused, cand),
          grid |-> GridPut(st.grid, hash, Len(st.fused) + 1),
          trace |-> Append(st.trace, [pass |-> pass, cand |-> cand, into |-> 0,
                                      before |-> cand, after |-> cand])]

MergeCandidate(st, cand, pass, hash, ft, ub) ==
    MergeStep(st, cand, pass, hash,
              FirstMatch(ScanOrder(st.grid, hash, 1, ub), st.fused, cand, pass, ft))

(* The thermal and the optical pass: one candidate after the other *)
RECURSIVE MergePass(_, _, _, _, _, _)
MergePass(cands, pass, st, nt, ft, ub) ==
    IF cands = <<>> THEN st
    ELSE IF ~isValidTarget(Head(cands), nt)
         THEN MergePass(Tail(cands), pass, st, nt, ft, ub)
         ELSE MergePass(Tail(cands), pass,
                        MergeCandidate(st, Head(cands), pass,
                                       get_grid_hash(Head(cands).x, Head(cands).y,
                                                     Head(cands).z, ft),
                                       ft, ub),
                        nt, ft, ub)

(* fuseSensors(radar_targets, thermal_targets, optical_targets): the list,  *)
(* with the record of what became of each valid candidate                   *)
fuseSensors(radar, thermal, optical, nt, ft, ub) ==
    LET r == RadarPass(radar, [fused |-> <<>>, grid |-> [k \in {} |-> <<>>], trace |-> <<>>], nt, ft)
        t == MergePass(thermal, "THERMAL", r, nt, ft, ub)
    IN MergePass(optical, "OPTICAL", t, nt, ft, ub)


(* filterNoise(targets): erase(remove_if(.. !isValidTarget ..)) *)
RECURSIVE filterNoise(_, _)
filterNoise(targets, nt) ==
    IF targets = <<>> THEN <<>>
    ELSE IF isValidTarget(Head(targets), nt)
         THEN <<Head(targets)>> \o filterNoise(Tail(targets), nt)
         ELSE filterNoise(Tail(targets), nt)

(* The earlier draft of fuseSensors: each candidate against the whole list, *)
(* front to back, merged into the first target within fusion_threshold.     *)
LinearFirstMatch(fused, cand, pass, ft) ==
    LET near == {i \in 1..Len(fused) : Mergeable(fused[i], pass) /\ Within(fused[i], cand, ft)}
    IN IF near = {} THEN 0 ELSE CHOOSE i \in near : \A j \in near : i <= j

RECURSIVE LinearPass(_, _, _, _, _)
LinearPass(cands, pass, fused, nt, ft) ==
    IF cands = <<>> THEN fused
    ELSE IF ~isValidTarget(Head(cands), nt)
         THEN LinearPass(Tail(cands), pass, fused, nt, ft)
         ELSE LinearPass(Tail(cands), pass,
                         (IF LinearFirstMatch(fused, Head(cands), pass, ft) = 0
                          THEN Append(fused, Head(cands))
                          ELSE [fused EXCEPT ![LinearFirstMatch(fused, Head(cands), pass, ft)] =
                                   IF pass = "THERMAL" THEN MergeThermal(@, Head(cands))
                                   ELSE MergeOptical(@, Head(cands))]),
                         nt, ft)

fuseSensorsLinear(radar, thermal, optical, nt, ft) ==
    LinearPass(optical, "OPTICAL",
               LinearPass(thermal, "THERMAL", filterNoise(radar, nt), nt, ft), nt, ft)

(* The comparator of prioritizeTargets: a goes before b *)
PriorityBeforeConfidenceOnly(a, b) == a.confidence > b.confidence
PriorityBefore(a, b) ==
    IF a.threat_level # b.threat_level THEN a.threat_level > b.threat_level
    ELSE a.confidence > b.confidence

(* std::sort(first, last, comp): some permutation that comp finds sorted;   *)
(* the order of elements comp does not tell apart is unspecified.  The set  *)
(* of all results, built by inserting one element after the other.          *)
Insertions(sorted, e) ==
    { SubSeq(sorted, 1, p) \o <<e>> \o SubSeq(sorted, p + 1, Len(sorted)) :
        p \in { q \in 0..Len(sorted) :
                  /\ \A i \in 1..q : ~PriorityBefore(e, sorted[i])
                  /\ \A i \in (q + 1)..Len(sorted) : ~PriorityBefore(sorted[i], e) } }

RECURSIVE SortResults(_)
SortResults(xs) ==
    IF xs = <<>> THEN {<<>>}
    ELSE UNION { Insertions(s, xs[Len(xs)]) : s \in SortResults(SubSeq(xs, 1, Len(xs) - 1)) }

----------------------------------------------------------------------------
(* The fusion stage: a caller holding three lists of Targets *)
MaxList == 2          \* targets in an input list of fuseSensors

Described(type) ==
    CASE type = "RADAR" -> <<"Radar detection">>
      [] type = "THERMAL" -> <<"Thermal detection">>
      [] OTHER -> <<"Optical detection">>

Input(id, x, y, z, confidence, type) ==
    Target(id, x, y, z, 0, 1000, confidence, type, calculateThreatLevel(0, confidence),
           Described(type), 0)

RadarPool == { Input(1, 0, 0, 0, 800, "RADAR"),        \* Scenario B
               Input(2, 11, -1, 0, 400, "RADAR"),
               Input(3, 4, 0, 0, 1000, "RADAR") }
ThermalPool == { Input(4, 2, 0, 0, 600, "THERMAL"),    \* Scenario B
                 Input(5, 1, 0, 0, 400, "THERMAL") }
OpticalPool == { Input(6, 11, 1, 0, 600, "OPTICAL"),
                 Input(7, 6, 0, 0, 500, "OPTICAL") }

(* The lists of at most n different targets of a pool *)
RECURSIVE Lists(_, _)
Lists(pool, n) ==
    IF n = 0 THEN {<<>>}
    ELSE LET shorter == Lists(pool, n - 1)
         IN shorter \cup { Append(l, t) : l \in shorter, t \in pool }

Distinct(l) == \A i, j \in 1..Len(l) : i # j => l[i] # l[j]

FusionArgs == {-1, 3, 5, 100}               \* fusion_thresh of the constructor
NoiseArgs == {300, 500}                     \* noise_thresh of the constructor

FuseInit ==
    /\ \E ft \in FusionArgs : \E nt \in NoiseArgs : Constructed(ft, nt)
    /\ now = 0
    /\ call = Idle
    /\ current_targets = <<>>
    /\ ret = Ret("construct", 0, <<>>, <<>>, <<>>)
    /\ assigned = [log |-> <<>>, retired |-> {}]
    /\ shiftUB \in {"wide", "masked", "zero"}
    /\ radar_targets \in { l \in Lists(RadarPool, MaxList) : Distinct(l) }
    /\ thermal_targets \in { l \in Lists(ThermalPool, MaxList) : Distinct(l) }
    /\ optical_targets \in { l \in Lists(OpticalPool, MaxList) : Distinct(l) }
    /\ fused_targets = <<>>

(* fused_targets = detector.fuseSensors(radar_targets, thermal_targets,     *)
(* optical_targets).  With fusion_threshold = 0 the cell index is the       *)
(* conversion of an infinity or a NaN to int, which is undefined: left out. *)
FuseSensors ==
    /\ call.state = "idle"
    /\ fusion_threshold # 0
    /\ \E r \in {fuseSensors(radar_targets, thermal_targets, optical_targets,
                            noise_threshold, fusion_threshold, shiftUB)} :
          /\ fused_targets' = r.fused
          /\ ret' = Ret("fuseSensors", 0, <<>>, r.fused, r.trace)
    /\ UNCHANGED <<detector, now, call, current_targets, assigned, shiftUB,
                   radar_targets, thermal_targets, optical_targets>>

(* detector.filterNoise(radar_targets) and so on, as main.cpp calls it *)
FilterNoise(type) ==
    /\ radar_targets' = IF type = "RADAR" THEN filterNoise(radar_targets, noise_threshold)
                        ELSE radar_targets
    /\ thermal_targets' = IF type = "THERMAL" THEN filterNoise(thermal_targets, noise_threshold)
                          ELSE thermal_targets
    /\ optical_targets' = IF type = "OPTICAL" THEN filterNoise(optical_targets, noise_threshold)
                          ELSE optical_targets
    /\ fused_targets' = IF type = "FUSED" THEN filterNoise(fused_targets, noise_threshold)
                        ELSE fused_targets
    /\ ret' = Ret("filterNoise", type,
                  CASE type = "RADAR" -> radar_targets
                    [] type = "THERMAL" -> thermal_targets
                    [] type = "OPTICAL" -> optical_targets
                    [] OTHER -> fused_targets, <<>>, <<>>)
    /\ UNCHANGED <<detector, now, call, current_targets, assigned, shiftUB>>

(* detector.prioritizeTargets(fused_targets) *)
PrioritizeTargets ==
    /\ \E sorted \in SortResults(fused_targets) : fused_targets' = sorted
    /\ ret' = Ret("prioritizeTargets", 0, fused_targets, <<>>, <<>>)
    /\ UNCHANGED <<detector, now, call, current_targets, assigned, shiftUB,
                   radar_targets, thermal_targets, optical_targets>>

FuseNext ==
    \/ FuseSensors
    \/ \E type \in {"RADAR", "FUSED"} : FilterNoise(type)
    \/ PrioritizeTargets

FuseSpec == FuseInit /\ [][FuseNext]_vars

(* fuseSensors on two radar targets in adjacent cells of the grid: with     *)
(* fusion_threshold 5, (4,0,0) lies in cell 0 and (7,0,0) in cell 1 of the  *)
(* x axis, and the thermal and optical candidates at (6,0,0) lie in cell 1  *)
(* within the threshold of both.                                            *)
ScanRadarPool == {Input(8, 4, 0, 0, 800, "RADAR"), Input(9, 7, 0, 0, 600, "RADAR")}
ScanThermalPool == {Input(10, 6, 0, 0, 600, "THERMAL"), Input(4, 2, 0, 0, 600, "THERMAL")}
ScanOpticalPool == {Input(7, 6, 0, 0, 500, "OPTICAL"), Input(6, 11, 1, 0, 600, "OPTICAL")}
ScanFusionArgs == {3, 5}

ScanInit ==
    /\ \E ft \in ScanFusionArgs : \E nt \in NoiseArgs : Constructed(ft, nt)
    /\ now = 0
    /\ call = Idle
    /\ current_targets = <<>>
    /\ ret = Ret("construct", 0, <<>>, <<>>, <<>>)
    /\ assigned = [log |-> <<>>, retired |-> {}]
    /\ shiftUB \in {"wide", "masked", "zero"}
    /\ radar_targets \in { l \in Lists(ScanRadarPool, MaxList) : Distinct(l) }
    /\ thermal_targets \in { l \in Lists(ScanThermalPool, MaxList) : Distinct(l) }
    /\ optical_targets \in { l \in Lists(ScanOpticalPool, MaxList) : Distinct(l) }
    /\ fused_targets = <<>>

ScanSpec == ScanInit /\ [][FuseNext]_vars

----------------------------------------------------------------------------
(* The pipeline of main.cpp: the lists the detect calls return are kept     *)
(* and handed to fuseSensors.                                               *)
(* auto radar_targets = detector.detectRadarTargets(radar_data); and so on  *)
KeepDetected ==
    /\ call.state = "idle"
    /\ ret.op = "detect"
    /\ radar_targets' = IF ret.arg = "RADAR" THEN ret.result ELSE radar_targets
    /\ thermal_targets' = IF ret.arg = "THERMAL" THEN ret.result ELSE thermal_targets
    /\ optical_targets' = IF ret.arg = "OPTICAL" THEN ret.result ELSE optical_targets
    /\ UNCHANGED <<detector, now, call, current_targets, ret, assigned, shiftUB,
                   fused_targets>>

PipelineNext ==
    \/ \E type \in {"RADAR", "THERMAL", "OPTICAL"} :
           \E data \in Batches(type) : DetectBegin(type, data)
    \/ \E i \in 1..MaxBatch : ExtractTask(i)
    \/ DetectEnd
    \/ KeepDetected
    \/ \E threshold \in NoiseValues : SetNoiseThreshold(threshold)
    \/ FuseSensors

PipelineSpec == Init /\ [][PipelineNext]_vars

----------------------------------------------------------------------------
(* The history table over the scan cycles: every cycle detects a batch and  *)
(* tracks the list it got.                                                  *)
CycleTargets == 48            \* readings in the batch of one scan cycle
HistoryCapacity == 1000       \* target_history.size() > 1000 of the earlier draft

CycleBatch == [i \in 1..CycleTargets |-> <<i, 0, 0, 900>>]

(* A whole detect call on a batch whose readings all give a Target, the     *)
(* tasks having run in the order of the batch                               *)
DetectCall(type, data) ==
    /\ call.state = "idle"
    /\ data # <<>>
    /\ StatusOf(type) = "ACTIVE"
    /\ next_target_id <= HistoryCapacity
    /\ \A k \in 1..Len(data) : Extract(type, data[k], noise_threshold, now) # <<>>
    /\ \E targets \in {[k \in 1..Len(data) |->
                           [Extract(type, data[k], noise_threshold, now)[1]
                               EXCEPT !.id = next_target_id + k - 1]]} :
          /\ next_target_id' = next_target_id + Len(targets)
          /\ last_metrics' =
                 [processing_time_ms |-> 0,
                  targets_detected |-> Len(targets),
                  average_confidence |->
                      IF targets = <<>> THEN 0
                      ELSE SumConfidence(targets) \div Len(targets),
                  false_positives |-> 0, missed_targets |-> 0]
          /\ current_targets' = targets
          /\ ret' = Ret("detect", type, <<>>, <<>>, <<>>)
          /\ assigned' = [assigned EXCEPT !.log = @ \o [k \in 1..Len(targets) |-> targets[k].id]]
    /\ UNCHANGED <<fusion_threshold, noise_threshold, radar_status, thermal_status,
                   optical_status, detected_targets, target_history, total_detections,
                   now, call, shiftUB, fuseVars>>

(* As in main.cpp, the list of a cycle is tracked before the next cycle *)
HistoryNext ==
    \/ ret.op # "detect" /\ DetectCall("RADAR", CycleBatch)
    \/ \E time_delta \in TimeDeltas : TrackTargets(time_delta)
    \/ Tick

HistorySpec == Init /\ [][HistoryNext]_vars

----------------------------------------------------------------------------
(* Two threads calling detect on one detector.  Each call has its own       *)
(* targets vector and its own target_mutex; next_target_id is the           *)
(* detector's atomic; last_metrics is the detector's and is assigned by     *)
(* every call without a lock.                                               *)
Threads == {1, 2}

(* The sensor each thread serves *)
SensorOf(c) == IF c = 1 THEN "RADAR" ELSE "THERMAL"

NotCalled == [state |-> "idle"]

(* detect entry of thread c *)
ThreadDetectBegin(c, type, data) ==
    /\ call.state = "concurrent"
    /\ call.slots[c].state # "running"
    /\ next_target_id + Len(Detected(type, data, noise_threshold, 0, now))
          <= MaxIds + 3
    /\ call' = [call EXCEPT !.slots[c] =
                   IF data = <<>> \/ StatusOf(type) # "ACTIVE"
                   THEN [state |-> "returned", type |-> type, data |-> data,
                         pending |-> {}, targets |-> <<>>, srcs |-> <<>>,
                         start_time |-> now, raced |-> FALSE,
                         first_id |-> next_target_id, end_id |-> next_target_id]
                   ELSE [state |-> "running", type |-> type, data |-> data,
                         pending |-> 1..Len(data), targets |-> <<>>, srcs |-> <<>>,
                         start_time |-> now,
                         raced |-> \E o \in Threads \ {c} : call.slots[o].state = "running",
                         first_id |-> next_target_id, end_id |-> next_target_id],
                          !.slots = [o \in Threads |->
                                        IF o # c /\ @[o].state = "running"
                                           /\ ~(data = <<>> \/ StatusOf(type) # "ACTIVE")
                                        THEN [@[o] EXCEPT !.raced = TRUE] ELSE @[o]]]
    /\ UNCHANGED <<detector, now, current_targets, ret, assigned, shiftUB, fuseVars>>

ThreadExtractTaskIdFirst(c, i) ==
    /\ call.state = "concurrent"
    /\ call.slots[c].state = "running"
    /\ i \in call.slots[c].pending
    /\ LET slot == call.slots[c]
           e == Extract(slot.type, slot.data[i], noise_threshold, now)
       IN /\ next_target_id' =
                 IF Candidate(slot.type, slot.data[i], noise_threshold, now) # <<>>
                 THEN FetchAdd(next_target_id) ELSE next_target_id
          /\ IF e # <<>>
             THEN /\ call' = [call EXCEPT !.slots[c] =
                               [slot EXCEPT !.pending = @ \ {i},
                                   !.targets = Append(@, [e[1] EXCEPT !.id = next_target_id]),
                                   !.srcs = Append(@, i)]]
                  /\ assigned' = [assigned EXCEPT !.log = Append(@, next_target_id)]
             ELSE /\ call' = [call EXCEPT !.slots[c] = [slot EXCEPT !.pending = @ \ {i}]]
                  /\ UNCHANGED assigned
    /\ UNCHANGED <<fusion_threshold, noise_threshold, radar_status, thermal_status,
                   optical_status, detected_targets, target_history, last_metrics,
                   total_detections, now, current_targets, ret, shiftUB, fuseVars>>
(* One task of the for_each of thread c's call, on reading i *)
ThreadExtractTask(c, i) ==
    /\ call.state = "concurrent"
    /\ call.slots[c].state = "running"
    /\ i \in call.slots[c].pending
    /\ LET slot == call.slots[c]
           e == Extract(slot.type, slot.data[i], noise_threshold, now)
       IN IF e # <<>>
          THEN /\ next_target_id' = FetchAdd(next_target_id)
               /\ call' = [call EXCEPT !.slots[c] =
                              [slot EXCEPT !.pending = @ \ {i},
                                  !.targets = Append(@, [e[1] EXCEPT !.id = next_target_id]),
                                  !.srcs = Append(@, i)]]
               /\ assigned' = [assigned EXCEPT !.log = Append(@, next_target_id)]
          ELSE /\ call' = [call EXCEPT !.slots[c] = [slot EXCEPT !.pending = @ \ {i}]]
               /\ UNCHANGED <<next_target_id, assigned>>
    /\ UNCHANGED <<fusion_threshold, noise_threshold, radar_status, thermal_status,
                   optical_status, detected_targets, target_history, last_metrics,
                   total_detections, now, current_targets, ret, shiftUB, fuseVars>>

(* The values an unlocked assignment of a record can leave when another    *)
(* thread assigns the same record: each field from one of the two.          *)
TornWrite(mine, other) ==
    {m \in [DOMAIN mine -> {mine[f] : f \in DOMAIN mine} \cup {other[f] : f \in DOMAIN mine}] :
        \A f \in DOMAIN mine : m[f] \in {mine[f], other[f]}}

(* After the join of thread c's call: last_metrics and the return *)
ThreadDetectEnd(c) ==
    /\ call.state = "concurrent"
    /\ call.slots[c].state = "running"
    /\ call.slots[c].pending = {}
    /\ LET slot == call.slots[c]
           metrics == [processing_time_ms |-> (now - slot.start_time) * 1000,
                       targets_detected |-> Len(slot.targets),
                       average_confidence |->
                           IF slot.targets = <<>> THEN 0
                           ELSE SumConfidence(slot.targets) \div Len(slot.targets),
                       false_positives |-> 0, missed_targets |-> 0]
       IN /\ last_metrics' \in (IF slot.raced THEN TornWrite(metrics, last_metrics)
                                ELSE {metrics})
          /\ ret' = Ret("detect", slot.type, slot.data, slot.targets, slot.srcs)
    /\ call' = [call EXCEPT !.slots[c].state = "returned",
                            !.slots[c].end_id = next_target_id]
    /\ UNCHANGED <<next_target_id, fusion_threshold, noise_threshold, radar_status,
                   thermal_status, optical_status, detected_targets, target_history,
                   total_detections, now, current_targets, assigned, shiftUB, fuseVars>>

ConcurrentInit ==
    /\ \E nt \in NoiseValues : Constructed(DefaultFusion, nt)
    /\ now = 0
    /\ call = [state |-> "concurrent", slots |-> [c \in Threads |-> NotCalled]]
    /\ current_targets = <<>>
    /\ ret = Ret("construct", 0, <<>>, <<>>, <<>>)
    /\ assigned = [log |-> <<>>, retired |-> {}]
    /\ shiftUB \in {"wide"}
    /\ radar_targets = <<>>
    /\ thermal_targets = <<>>
    /\ optical_targets = <<>>
    /\ fused_targets = <<>>

ConcurrentNext ==
    \/ \E c \in Threads : \E data \in Batches(SensorOf(c)) :
          ThreadDetectBegin(c, SensorOf(c), data)
    \/ \E c \in Threads : \E i \in 1..MaxBatch : ThreadExtractTask(c, i)
    \/ \E c \in Threads : ThreadDetectEnd(c)

ConcurrentSpec == ConcurrentInit /\ [][ConcurrentNext]_vars

----------------------------------------------------------------------------
(* filterNoise on lists a caller built with the Target constructor: targets *)
(* above, at and below the default noise threshold, and one of size 0.05.   *)
FilterPool ==
    { Input(1, 0, 0, 0, 600, "RADAR"),
      Input(2, 1, 0, 0, 200, "RADAR"),
      Input(3, 2, 0, 0, 300, "THERMAL"),
      [Input(4, 3, 0, 0, 800, "OPTICAL") EXCEPT !.size = 50] }

FilterInit ==
    /\ \E nt \in NoiseArgs : Constructed(DefaultFusion, nt)
    /\ now = 0
    /\ call = Idle
    /\ current_targets = <<>>
    /\ ret = Ret("construct", 0, <<>>, <<>>, <<>>)
    /\ assigned = [log |-> <<>>, retired |-> {}]
    /\ shiftUB \in {"wide"}
    /\ radar_targets = <<>>
    /\ thermal_targets = <<>>
    /\ optical_targets = <<>>
    /\ fused_targets \in { l \in Lists(FilterPool, MaxList) : Distinct(l) }

FilterNext ==
    \/ FilterNoise("FUSED")
    \/ \E threshold \in NoiseValues : SetNoiseThreshold(threshold)

FilterSpec == FilterInit /\ [][FilterNext]_vars

----------------------------------------------------------------------------
(* The grid key of fuseSensors on its own: get_grid_hash of a position,     *)
(* then the key of one of the 27 neighbours computed from it.               *)
KeyCoordinates == {-6, -1, 4, 7}

KeyInit ==
    /\ \E ft \in ScanFusionArgs : Constructed(ft, DefaultNoise)
    /\ now = 0
    /\ call = Idle
    /\ current_targets = <<>>
    /\ ret = Ret("construct", 0, <<>>, <<>>, <<>>)
    /\ assigned = [log |-> <<>>, retired |-> {}]
    /\ shiftUB \in {"wide", "masked", "zero"}
    /\ radar_targets = <<>>
    /\ thermal_targets = <<>>
    /\ optical_targets = <<>>
    /\ fused_targets = <<>>

(* const auto hash = get_grid_hash(x, y, z) *)
GridHashCall(x, y, z) ==
    /\ ret' = Ret("get_grid_hash", <<x, y, z>>, <<>>,
                  <<get_grid_hash(x, y, z, fusion_threshold)>>, <<>>)
    /\ UNCHANGED <<detector, now, call, current_targets, assigned, shiftUB, fuseVars>>

(* const auto nearby_hash = hash + (dx << 42) + (dy << 21) + dz *)
NearbyHashCall(dx, dy, dz) ==
    /\ ret.op = "get_grid_hash"
    /\ ret' = Ret("nearby_hash", <<dx, dy, dz>>, ret.arg,
                  <<NearbyHash(ret.result[1], dx, dy, dz, shiftUB)>>, <<>>)
    /\ UNCHANGED <<detector, now, call, current_targets, assigned, shiftUB, fuseVars>>

KeyNext ==
    \/ \E x, y, z \in KeyCoordinates : GridHashCall(x, y, z)
    \/ \E n \in 1..27 : NearbyHashCall(Offsets[n][1], Offsets[n][2], Offsets[n][3])

KeySpec == KeyInit /\ [][KeyNext]_vars

----------------------------------------------------------------------------
(* Detect calls on a detector whose sensors are switched on and off *)
StatusNext ==
    \/ \E type \in {"RADAR", "THERMAL", "OPTICAL"} :
           \E data \in Batches(type) : DetectBegin(type, data)
    \/ \E i \in 1..MaxBatch : ExtractTask(i)
    \/ DetectEnd
    \/ \E type \in TargetTypes : \E status \in SensorStatuses : SetSensorStatus(type, status)

StatusSpec == Init /\ [][StatusNext]_vars

----------------------------------------------------------------------------
(* The stored list and the History Table between clears: a caller detects   *)
(* radar targets, tracks them, adds them to the detector and clears it.     *)
ClearNext ==
    \/ \E data \in Batches("RADAR") : DetectBegin("RADAR", data)
    \/ \E i \in 1..MaxBatch : ExtractTask(i)
    \/ DetectEnd
    \/ \E time_delta \in TimeDeltas : TrackTargets(time_delta)
    \/ \E i \in 1..MaxBatch : AddTargetWithin(i, MaxAdds)
    \/ ClearTargets

ClearSpec == Init /\ [][ClearNext]_vars

----------------------------------------------------------------------------
(* calculateThreatLevel on targets of given velocity and confidence: the    *)
(* values at, just below and just above each threshold of the function.     *)
Velocities == {0, 19, 20, 21, 49, 50, 51, 99, 100, 101, 150}
Confidences == {0, 499, 500, 501, 699, 700, 701, 899, 900, 901, 1000}

(* A velocity v >= 0 as the model keeps it: its square, scaled *)
Vel2Of(velocity) == velocity * velocity * V2Scale

ThreatCall(velocity, confidence) ==
    /\ call.state = "idle"
    /\ ret' = Ret("calculateThreatLevel", <<velocity, confidence>>, <<>>,
                  <<calculateThreatLevel(Vel2Of(velocity), confidence)>>, <<>>)
    /\ UNCHANGED <<detector, now, call, current_targets, assigned, shiftUB, fuseVars>>

ThreatNext == \E velocity \in Velocities : \E confidence \in Confidences :
                  ThreatCall(velocity, confidence)

ThreatSpec == Init /\ [][ThreatNext]_vars

----------------------------------------------------------------------------
(* The configuration of a detector: thresholds and sensor statuses *)
ConfigNext ==
    \/ \E threshold \in FusionValues : SetFusionThreshold(threshold)
    \/ \E threshold \in NoiseValues : SetNoiseThreshold(threshold)
    \/ \E type \in TargetTypes : \E status \in SensorStatuses : SetSensorStatus(type, status)

ConfigSpec == Init /\ [][ConfigNext]_vars

----------------------------------------------------------------------------
(* Properties *)

(* How many targets the fused list held before entry k of the trace *)
RECURSIVE AppendedBefore(_, _)
AppendedBefore(trace, k) ==
    IF k <= 1 THEN 0
    ELSE AppendedBefore(trace, k - 1) + (IF trace[k - 1].into = 0 THEN 1 ELSE 0)

(* C1 (FuseSpec): in the list fuseSensors returns, no thermal or optical    *)
(* candidate was appended as a new entry while an entry that was already    *)
(* in the output lay at a distance < fusion_threshold of it.                *)
C1_NoDuplicateWithinThreshold ==
    ret.op = "fuseSensors" =>
        \A k \in 1..Len(ret.srcs) :
            (ret.srcs[k].pass # "RADAR" /\ ret.srcs[k].into = 0) =>
                \A i \in 1..AppendedBefore(ret.srcs, k) :
                    ~Within(ret.result[i], ret.srcs[k].cand, fusion_threshold)

ThreatConsistent(targets) ==
    \A i \in 1..Len(targets) :
        targets[i].threat_level = calculateThreatLevel(targets[i].vel2, targets[i].confidence)

(* C3 (PipelineSpec): every Target of every list the caller holds has the   *)
(* threat_level the threat function gives for its velocity and confidence.  *)
C3_ThreatLevelConsistent ==
    /\ ThreatConsistent(current_targets)
    /\ ThreatConsistent(radar_targets)
    /\ ThreatConsistent(thermal_targets)
    /\ ThreatConsistent(optical_targets)
    /\ ThreatConsistent(fused_targets)

(* C4 (Spec): after a detect call on an empty batch has returned, the list  *)
(* returned is empty and the last metrics record says targets_detected = 0, *)
(* average_confidence = 0 and processing_time_ms >= 0.                      *)
C4_EmptyBatchZeroMetrics ==
    (ret.op = "detect" /\ ret.before = <<>>) =>
        /\ ret.result = <<>>
        /\ last_metrics.processing_time_ms >= 0
        /\ last_metrics.targets_detected = 0
        /\ last_metrics.average_confidence = 0

(* C5 (TrackSpec): after trackTargets(targets, dt) with dt <= 0 has         *)
(* returned, every target of the list has the velocity it had before.       *)
C5_NonPositiveDeltaKeepsVelocity ==
    (ret.op = "trackTargets" /\ ret.arg <= 0) =>
        /\ Len(current_targets) = Len(ret.before)
        /\ \A i \in 1..Len(current_targets) : current_targets[i].vel2 = ret.before[i].vel2

(* C6 (Spec): every Target a detectRadarTargets call returns comes from a   *)
(* reading of the batch whose signal is > noise_threshold; a reading with   *)
(* signal <= noise_threshold yields none.                                   *)
C6_RadarAtOrBelowNoiseDropped ==
    (ret.op = "detect" /\ ret.arg = "RADAR") =>
        /\ Len(ret.result) = Len(ret.srcs)
        /\ \A k \in 1..Len(ret.srcs) :
              /\ ret.srcs[k] \in 1..Len(ret.before)
              /\ Len(ret.before[ret.srcs[k]]) >= 4
              /\ ret.before[ret.srcs[k]][4] > noise_threshold

C6_Witness ==
    /\ ret.op = "detect"
    /\ ret.arg = "RADAR"
    /\ ret.result # <<>>
    /\ \E i \in 1..Len(ret.before) :
          /\ Len(ret.before[i]) >= 4
          /\ ret.before[i][4] = noise_threshold
          /\ \A k \in 1..Len(ret.srcs) : ret.srcs[k] # i

InUnitRange(targets) ==
    \A i \in 1..Len(targets) : targets[i].confidence >= 0 /\ targets[i].confidence <= 1000

(* C7 (PipelineSpec): every Target a detect call or fuseSensors returns,    *)
(* the detect results being the inputs of fuseSensors, has a confidence     *)
(* between 0 and 1, whatever noise_threshold was set.                       *)
C7_ConfidenceInUnitRange ==
    /\ ret.op \in {"detect", "fuseSensors"} => InUnitRange(ret.result)
    /\ InUnitRange(current_targets)
    /\ InUnitRange(fused_targets)

C7_Witness ==
    /\ ret.op = "fuseSensors"
    /\ noise_threshold < 0
    /\ \E i \in 1..Len(ret.result) : ret.result[i].type = "FUSED"

(* C8 (FuseSpec): the list fuseSensors(R, T, O) returns is at most          *)
(* |R| + |T| + |O| long.                                                    *)
C8_FusedNoLongerThanInputs ==
    ret.op = "fuseSensors" =>
        Len(ret.result) <= Len(radar_targets) + Len(thermal_targets) + Len(optical_targets)

C8_Witness ==
    /\ ret.op = "fuseSensors"
    /\ Len(ret.result) >= 2
    /\ \E k \in 1..Len(ret.srcs) : ret.srcs[k].into # 0
    /\ \E k \in 1..Len(ret.srcs) : ret.srcs[k].pass # "RADAR" /\ ret.srcs[k].into = 0

Occurrences(xs, t) == Cardinality({ i \in 1..Len(xs) : xs[i] = t })
IsPermutation(xs, ys) ==
    /\ Len(xs) = Len(ys)
    /\ \A i \in 1..Len(ys) : Occurrences(xs, ys[i]) = Occurrences(ys, ys[i])

(* C9 (FuseSpec): after prioritizeTargets(xs), xs is a permutation of what  *)
(* it was, with threat_level descending and, among equal threat levels,     *)
(* confidence descending.                                                   *)
C9_PrioritizedSortedPermutation ==
    ret.op = "prioritizeTargets" =>
        /\ IsPermutation(fused_targets, ret.before)
        /\ \A i, j \in 1..Len(fused_targets) :
              i < j =>
                 /\ fused_targets[i].threat_level >= fused_targets[j].threat_level
                 /\ fused_targets[i].threat_level = fused_targets[j].threat_level
                       => fused_targets[i].confidence >= fused_targets[j].confidence

C9_Witness ==
    /\ ret.op = "prioritizeTargets"
    /\ Len(fused_targets) >= 3
    /\ fused_targets # ret.before
    /\ \E i \in 1..(Len(fused_targets) - 1) :
          /\ fused_targets[i].threat_level = fused_targets[i + 1].threat_level
          /\ fused_targets[i].confidence > fused_targets[i + 1].confidence

(* C10 (ConfigSpec): a setter call stores its value only when the value is  *)
(* in range ([0,1] for setNoiseThreshold, (0,100) for setFusionThreshold),  *)
(* leaves its threshold as it was otherwise, and never touches the other    *)
(* threshold.                                                               *)
C10_SettersRejectOutOfRange ==
    [][/\ ret'.op = "setNoiseThreshold" =>
            /\ noise_threshold' = NewThresholdChecked(noise_threshold, ret'.arg,
                                                      0, 1000, FALSE, FALSE)
            /\ fusion_threshold' = fusion_threshold
       /\ ret'.op = "setFusionThreshold" =>
            /\ fusion_threshold' = NewThresholdChecked(fusion_threshold, ret'.arg,
                                                       0, 100, TRUE, TRUE)
            /\ noise_threshold' = noise_threshold]_vars

LastInto(trace, k) ==
    \A m \in (k + 1)..Len(trace) : trace[m].into # trace[k].into

(* C12 (FuseSpec): a thermal candidate that matches merges into a target    *)
(* still typed Radar, which gets confidence min(0.9, existing + 0.3 *       *)
(* thermal), the higher of the two threat levels, type Fused and            *)
(* " + Thermal" at the end of its description; with fusion_threshold 5.0,   *)
(* radar (0,0,0) confidence 0.8 and thermal (2,0,0) confidence 0.6 fuse     *)
(* into exactly one Fused Target of confidence 0.9.                         *)
C12_ThermalMergeEffect ==
    ret.op = "fuseSensors" =>
        /\ \A k \in 1..Len(ret.srcs) :
              LET e == ret.srcs[k]
              IN (e.pass = "THERMAL" /\ e.into # 0) =>
                    /\ e.before.type = "RADAR"
                    /\ e.after.confidence =
                          (IF 10 * e.before.confidence + 3 * e.cand.confidence > 9000
                           THEN 900
                           ELSE (10 * e.before.confidence + 3 * e.cand.confidence) \div 10)
                    /\ e.after.threat_level >= e.before.threat_level
                    /\ e.after.threat_level >= e.cand.threat_level
                    /\ e.after.threat_level \in {e.before.threat_level, e.cand.threat_level}
                    /\ e.after.type = "FUSED"
                    /\ e.after.description = e.before.description \o <<" + Thermal">>
                    /\ LastInto(ret.srcs, k) => ret.result[e.into] = e.after
        /\ (/\ fusion_threshold = 5
            /\ radar_targets = <<Input(1, 0, 0, 0, 800, "RADAR")>>
            /\ thermal_targets = <<Input(4, 2, 0, 0, 600, "THERMAL")>>
            /\ optical_targets = <<>>) =>
              /\ Len(ret.result) = 1
              /\ ret.result[1].type = "FUSED"
              /\ ret.result[1].confidence = 900

C12_Witness ==
    /\ ret.op = "fuseSensors"
    /\ fusion_threshold = 5
    /\ radar_targets = <<Input(1, 0, 0, 0, 800, "RADAR")>>
    /\ thermal_targets = <<Input(4, 2, 0, 0, 600, "THERMAL")>>
    /\ optical_targets = <<>>
    /\ Len(ret.result) = 1
    /\ ret.result[1].description = <<"Radar detection", " + Thermal">>

(* C13 (Spec): a detect call is a function of its readings and the         *)
(* detector state: whatever the order in which the per-reading tasks ran,   *)
(* the list returned is the one the tasks give when they run in the order   *)
(* of the batch, with the same order of Targets and the same id for the     *)
(* Target of each reading.                                                  *)
C13_DetectDeterministic ==
    (ret.op = "detect" /\ call.state = "idle") =>
        ret.result = Detected(ret.arg, ret.before, noise_threshold,
                              next_target_id - Len(ret.result), now)

(* C14 (HistorySpec): after every trackTargets call the History Table      *)
(* holds at most 1000 entries.                                              *)
C14_HistoryAtMostCapacity ==
    ret.op = "trackTargets" => Cardinality(DOMAIN target_history) <= HistoryCapacity

(* C15 (TrackSpec): a trackTargets(targets, dt) call with dt > 0 sets the   *)
(* velocity of every target whose id is in the History Table to the         *)
(* distance between its position and the stored position, divided by dt.    *)
C15_PositiveDeltaVelocity ==
    [][(ret'.op = "trackTargets" /\ ret'.arg > 0 /\ now' = now) =>
          \A i \in 1..Len(current_targets) :
              current_targets[i].id \in DOMAIN target_history =>
                  current_targets'[i].vel2 * ret'.arg * ret'.arg
                      = V2Scale * Dist2(current_targets[i],
                                        target_history[current_targets[i].id])]_vars

(* C16 (TrackSpec): after trackTargets returns, the History Table entry at  *)
(* the id of every target of the list equals that target as the call left   *)
(* it: position, velocity and the refreshed timestamp.                      *)
C16_HistoryHoldsTrackedState ==
    ret.op = "trackTargets" =>
        \A i \in 1..Len(current_targets) :
            /\ current_targets[i].id \in DOMAIN target_history
            /\ target_history[current_targets[i].id] = current_targets[i]

(* A call that found the id in the table and recomputed the velocity.       *)
C16_Witness ==
    /\ ret.op = "trackTargets"
    /\ \E i \in 1..Len(current_targets) :
          /\ current_targets[i].vel2 # ret.before[i].vel2
          /\ target_history[current_targets[i].id] = current_targets[i]

(* C17 (FuseSpec): after prioritizeTargets returns, every target of the     *)
(* list has the threat_level the threat function gives for its velocity and *)
(* confidence, whatever the threat levels of the list passed in were.       *)
C17_PrioritizedThreatConsistent ==
    ret.op = "prioritizeTargets" => ThreatConsistent(fused_targets)

PositionIn(targets, t) == CHOOSE k \in 1..Len(targets) : targets[k] = t

SortedByPriority(targets) ==
    \A i, j \in 1..Len(targets) :
        i < j =>
           /\ targets[i].threat_level >= targets[j].threat_level
           /\ targets[i].threat_level = targets[j].threat_level
                 => targets[i].confidence >= targets[j].confidence

(* C18 (FuseSpec): prioritizeTargets is stable and idempotent: two targets  *)
(* with equal (threat_level, confidence) come out in the order they went    *)
(* in, and a list that went in sorted and threat-consistent comes out as    *)
(* the same list, element by element.                                       *)
C18_PrioritizeStableIdempotent ==
    ret.op = "prioritizeTargets" =>
        /\ \A i, j \in 1..Len(fused_targets) :
              (/\ i < j
               /\ fused_targets[i].threat_level = fused_targets[j].threat_level
               /\ fused_targets[i].confidence = fused_targets[j].confidence)
                 => PositionIn(ret.before, fused_targets[i])
                        < PositionIn(ret.before, fused_targets[j])
        /\ (SortedByPriority(ret.before) /\ ThreatConsistent(ret.before))
              => fused_targets = ret.before

(* C19 (FuseSpec): an optical candidate that matches an existing target     *)
(* gives it confidence min(0.95, existing + 0.2 * optical) and the higher   *)
(* of the two threat levels; the target becomes Fused and gets " + Optical" *)
(* at the end of its description only if it was not Fused already, so a     *)
(* target already fused keeps the description it had.                       *)
C19_OpticalMergeEffect ==
    ret.op = "fuseSensors" =>
        \A k \in 1..Len(ret.srcs) :
            LET e == ret.srcs[k]
            IN (e.pass = "OPTICAL" /\ e.into # 0) =>
                  /\ e.after.confidence =
                        (IF 10 * e.before.confidence + 2 * e.cand.confidence > 9500
                         THEN 950
                         ELSE (10 * e.before.confidence + 2 * e.cand.confidence) \div 10)
                  /\ e.after.threat_level >= e.before.threat_level
                  /\ e.after.threat_level >= e.cand.threat_level
                  /\ e.after.threat_level \in {e.before.threat_level, e.cand.threat_level}
                  /\ e.after.type = "FUSED"
                  /\ e.after.description =
                        (IF e.before.type = "FUSED" THEN e.before.description
                         ELSE e.before.description \o <<" + Optical">>)
                  /\ \A f \in {"id", "x", "y", "z", "vel2", "size", "detection_time"} :
                        e.after[f] = e.before[f]
                  /\ LastInto(ret.srcs, k) => ret.result[e.into] = e.after

(* An optical candidate merged into a target that a thermal candidate had   *)
(* already fused: the description stays "Radar detection + Thermal".        *)
C19_Witness ==
    /\ ret.op = "fuseSensors"
    /\ \E k \in 1..Len(ret.srcs) :
          /\ ret.srcs[k].pass = "OPTICAL"
          /\ ret.srcs[k].into # 0
          /\ ret.srcs[k].before.type = "FUSED"
          /\ ret.srcs[k].after.description = <<"Radar detection", " + Thermal">>
          /\ ret.result[ret.srcs[k].into] = ret.srcs[k].after

(* The fused list as the first k trace entries of a fuseSensors call have   *)
(* left it: an entry with into = 0 appended its candidate, any other        *)
(* replaced the target at index into.                                       *)
RECURSIVE ListAt(_, _)
ListAt(trace, k) ==
    IF k = 0 THEN <<>>
    ELSE LET e == trace[k]
         IN IF e.into = 0 THEN Append(ListAt(trace, k - 1), e.cand)
            ELSE [ListAt(trace, k - 1) EXCEPT ![e.into] = e.after]

CellOf(t, grid_size) ==
    <<CellIndex(t.x, grid_size), CellIndex(t.y, grid_size), CellIndex(t.z, grid_size)>>

(* The place (1..27) of target t's cell among the neighbour cells of the    *)
(* candidate's cell, in the order dx, dy, dz from -1 to 1; 0 if the cell is *)
(* not a neighbour.                                                         *)
CellRank(t, cand, grid_size) ==
    LET d == [c \in 1..3 |-> CellOf(t, grid_size)[c] - CellOf(cand, grid_size)[c]]
    IN IF \A c \in 1..3 : d[c] \in {-1, 0, 1}
       THEN 9 * (d[1] + 1) + 3 * (d[2] + 1) + (d[3] + 1) + 1
       ELSE 0

(* The target the scan of the 27 neighbour cells meets first among those    *)
(* the candidate may merge into and that lie within fusion_threshold; 0 if  *)
(* there is none.                                                           *)
FirstInCellScan(fused, cand, pass, ft) ==
    LET near == {i \in 1..Len(fused) :
                    /\ Mergeable(fused[i], pass)
                    /\ Within(fused[i], cand, ft)
                    /\ CellRank(fused[i], cand, ft) # 0}
    IN IF near = {} THEN 0
       ELSE CHOOSE i \in near :
               \A j \in near :
                   \/ CellRank(fused[i], cand, ft) < CellRank(fused[j], cand, ft)
                   \/ /\ CellRank(fused[i], cand, ft) = CellRank(fused[j], cand, ft)
                      /\ i <= j

(* C20 (ScanSpec): matching is first-match greedy: a thermal or optical     *)
(* candidate changes at most one target of the list, and the target it      *)
(* merges into is the first one within fusion_threshold that the scan of    *)
(* the 27 neighbour cells (dx, dy, dz from -1 to 1, each cell in insertion  *)
(* order) meets, whether or not a later one is closer.                      *)
C20_FirstMatchInCellScan ==
    ret.op = "fuseSensors" =>
        /\ ListAt(ret.srcs, Len(ret.srcs)) = ret.result
        /\ \A k \in 1..Len(ret.srcs) :
              LET e == ret.srcs[k]
              IN (e.pass \in {"THERMAL", "OPTICAL"} /\ e.into # 0) =>
                    e.into = FirstInCellScan(ListAt(ret.srcs, k - 1), e.cand, e.pass,
                                             fusion_threshold)

(* The indices of the readings of a batch that pass the accept and the      *)
(* validity checks                                                          *)
Passing(type, data) ==
    {i \in 1..Len(data) : Extract(type, data[i], noise_threshold, now) # <<>>}

Ids(targets) == {targets[k].id : k \in 1..Len(targets)}

(* C21 (ConcurrentSpec): under every interleaving of the per-reading tasks, *)
(* a detect call has no task pending when it returns, its list holds one    *)
(* Target for each reading that passes the accept and validity checks and   *)
(* no other, the ids of a list are pairwise distinct, and the lists of two  *)
(* calls that run concurrently on one detector share no id.                 *)
C21_OneTargetPerReadingDistinctIds ==
    call.state = "concurrent" =>
        /\ \A c \in Threads :
              LET slot == call.slots[c]
              IN /\ slot.state = "returned" =>
                       /\ slot.pending = {}
                       /\ Len(slot.targets) = Cardinality(Passing(slot.type, slot.data))
                       /\ {slot.srcs[k] : k \in 1..Len(slot.srcs)} = Passing(slot.type, slot.data)
                 /\ slot.state # "idle" =>
                       /\ Len(slot.srcs) = Len(slot.targets)
                       /\ Cardinality(Ids(slot.targets)) = Len(slot.targets)
                       /\ \A k \in 1..Len(slot.targets) :
                             [slot.targets[k] EXCEPT !.id = 0] =
                                 Extract(slot.type, slot.data[slot.srcs[k]],
                                         noise_threshold, now)[1]
        /\ \A c, o \in Threads :
              (c # o /\ call.slots[c].state # "idle" /\ call.slots[o].state # "idle")
                 => Ids(call.slots[c].targets) \cap Ids(call.slots[o].targets) = {}

(* Two calls that overlapped, both returned, and whose tasks interleaved:   *)
(* the ids of one list fall around an id of the other.                      *)
C21_Witness ==
    /\ call.state = "concurrent"
    /\ \A c \in Threads : call.slots[c].state = "returned" /\ call.slots[c].raced
    /\ \E c, o \in Threads :
          /\ c # o
          /\ Len(call.slots[c].targets) = 2
          /\ \E m \in Ids(call.slots[o].targets) :
                call.slots[c].targets[1].id < m /\ m < call.slots[c].targets[2].id

(* C22 as stated (ConcurrentSpec): a reading that is too short or fails the *)
(* accept or the validity check gets no Target and no id, and every detect  *)
(* call advances the id counter by exactly the number of Targets it         *)
(* returns, whose ids form a gap-free range.                                *)
C22_EveryCallGapFree ==
    call.state = "concurrent" =>
        \A c \in Threads :
            LET slot == call.slots[c]
            IN slot.state = "returned" =>
                  /\ \A i \in 1..Len(slot.data) :
                        i \notin Passing(slot.type, slot.data) =>
                            \A k \in 1..Len(slot.srcs) : slot.srcs[k] # i
                  /\ slot.end_id - slot.first_id = Len(slot.targets)
                  /\ Ids(slot.targets) = slot.first_id..(slot.end_id - 1)

(* C22 (ConcurrentSpec): a reading that is too short or fails the accept    *)
(* or the validity check gets no Target and no id; a detect call during     *)
(* which no other detect call runs on the detector advances the id counter  *)
(* by exactly the number of Targets it returns, whose ids form a gap-free   *)
(* range.                                                                   *)
C22_UnoverlappedCallGapFree ==
    call.state = "concurrent" =>
        \A c \in Threads :
            LET slot == call.slots[c]
            IN slot.state = "returned" =>
                  /\ \A i \in 1..Len(slot.data) :
                        i \notin Passing(slot.type, slot.data) =>
                            \A k \in 1..Len(slot.srcs) : slot.srcs[k] # i
                  /\ ~slot.raced =>
                        /\ slot.end_id - slot.first_id = Len(slot.targets)
                        /\ Ids(slot.targets) = slot.first_id..(slot.end_id - 1)

(* A call alone on the detector, after ids were handed out, whose batch     *)
(* holds a short tuple and a reading that passes the accept test and fails  *)
(* the validity test: nothing returned, counter where it was.               *)
C22_Witness ==
    /\ call.state = "concurrent"
    /\ noise_threshold = -1000
    /\ LET slot == call.slots[1]
       IN /\ slot.state = "returned"
          /\ ~slot.raced
          /\ slot.data = << <<0, 7, 0, -500>>, <<1, 1, 1>> >>
          /\ Candidate("RADAR", slot.data[1], noise_threshold, now) # <<>>
          /\ slot.targets = <<>>
          /\ slot.first_id > 1
          /\ slot.end_id = slot.first_id

(* C23 (ThreatSpec): calculateThreatLevel gives Critical if velocity > 100  *)
(* or confidence > 0.9, else High if velocity > 50 or confidence > 0.7,     *)
(* else Medium if velocity > 20 or confidence > 0.5, else Low; velocity 100 *)
(* with confidence 0.9 is High; and a target with no less velocity and no   *)
(* less confidence never gets a lower level.                                *)
C23_ThreatTableStrictMonotone ==
    ret.op = "calculateThreatLevel" =>
        LET velocity == ret.arg[1]
            confidence == ret.arg[2]
            level == ret.result[1]
        IN /\ (velocity > 100 \/ confidence > 900) => level = CRITICAL
           /\ (~(velocity > 100 \/ confidence > 900)
                  /\ (velocity > 50 \/ confidence > 700)) => level = HIGH
           /\ (~(velocity > 50 \/ confidence > 700)
                  /\ (velocity > 20 \/ confidence > 500)) => level = MEDIUM
           /\ ~(velocity > 20 \/ confidence > 500) => level = LOW
           /\ (velocity = 100 /\ confidence = 900) => level = HIGH
           /\ \A v \in Velocities : \A c \in Confidences :
                 (velocity <= v /\ confidence <= c)
                    => level <= calculateThreatLevel(Vel2Of(v), c)

C23_Witness ==
    /\ ret.op = "calculateThreatLevel"
    /\ ret.arg = <<100, 900>>
    /\ ret.result = <<HIGH>>

(* C24 (FilterSpec): filterNoise removes exactly the Targets that fail      *)
(* confidence > noise_threshold and velocity >= 0 and finite(x, y, z),      *)
(* keeps the others in their order, and a second call with the same         *)
(* threshold removes nothing.  Every position of the model is finite and    *)
(* every velocity is kept as its square.                                    *)
C24_FilterKeepsExactlyValid ==
    (ret.op = "filterNoise" /\ ret.arg = "FUSED") =>
        LET Valid(t) == t.confidence > noise_threshold /\ t.vel2 >= 0
        IN /\ fused_targets = SelectSeq(ret.before, Valid)
           /\ filterNoise(fused_targets, noise_threshold) = fused_targets

SameIdPositionVelocity(a, b) ==
    \A f \in {"id", "x", "y", "z", "vel2"} : a[f] = b[f]

(* C25 as stated (FuseSpec): the first |R| entries of the result of         *)
(* fuseSensors are the radar inputs in input order, each with its id,       *)
(* position and velocity, and no merge changes the id, position or          *)
(* velocity of an entry.                                                    *)
C25_EveryRadarInputFirst ==
    ret.op = "fuseSensors" =>
        /\ Len(ret.result) >= Len(radar_targets)
        /\ \A k \in 1..Len(radar_targets) :
              k <= Len(ret.result) /\ SameIdPositionVelocity(ret.result[k], radar_targets[k])
        /\ \A k \in 1..Len(ret.srcs) :
              ret.srcs[k].into # 0 =>
                  SameIdPositionVelocity(ret.srcs[k].after, ret.srcs[k].before)

(* C25 (FuseSpec): the first entries of the result of fuseSensors are the   *)
(* radar inputs that pass the validity check, in input order, each with its *)
(* id, position and velocity; a radar input that fails the check is left    *)
(* out; no merge changes the id, position or velocity of an entry.          *)
C25_ValidRadarInputsFirst ==
    ret.op = "fuseSensors" =>
        LET Valid(t) == t.confidence > noise_threshold /\ t.size > MinSize
            valid == SelectSeq(radar_targets, Valid)
        IN /\ Len(ret.result) >= Len(valid)
           /\ \A k \in 1..Len(valid) : SameIdPositionVelocity(ret.result[k], valid[k])
           /\ \A k \in (Len(valid) + 1)..Len(ret.result) : ret.result[k].type # "RADAR"
           /\ ListAt(ret.srcs, Len(ret.srcs)) = ret.result
           /\ \A k \in 1..Len(ret.srcs) :
                 ret.srcs[k].into # 0 =>
                     SameIdPositionVelocity(ret.srcs[k].after, ret.srcs[k].before)

(* Two radar inputs of which the validity check drops the first; the        *)
(* second heads the result, merged with a thermal candidate standing        *)
(* elsewhere, at its own position.                                          *)
C25_Witness ==
    /\ ret.op = "fuseSensors"
    /\ Len(radar_targets) = 2
    /\ radar_targets[1].confidence <= noise_threshold
    /\ Len(ret.result) >= 1
    /\ ret.result[1].id = radar_targets[2].id
    /\ ret.result[1].type = "FUSED"
    /\ \E k \in 1..Len(ret.srcs) :
          /\ ret.srcs[k].pass = "THERMAL"
          /\ ret.srcs[k].into = 1
          /\ ret.srcs[k].cand.x # ret.result[1].x
    /\ ret.result[1].x = radar_targets[2].x

(* C26 (FuseSpec): a merge never lowers the confidence of the target a      *)
(* thermal or optical candidate is merged into, whatever confidence in      *)
(* [0,1] the target had, 1.0 included.                                      *)
C26_MergeNeverLowersConfidence ==
    ret.op = "fuseSensors" =>
        \A k \in 1..Len(ret.srcs) :
            (/\ ret.srcs[k].into # 0
             /\ ret.srcs[k].before.confidence >= 0
             /\ ret.srcs[k].before.confidence <= 1000) =>
                ret.srcs[k].after.confidence >= ret.srcs[k].before.confidence

CellAt(p, grid_size) ==
    <<CellIndex(p[1], grid_size), CellIndex(p[2], grid_size), CellIndex(p[3], grid_size)>>

(* C27 (KeySpec): two positions have the same grid key if and only if they  *)
(* lie in the same cell, and hash + (dx << 42) + (dy << 21) + dz is the key *)
(* of the cell at offset (dx, dy, dz) from the cell of hash, for negative   *)
(* cell indices as for the others.                                          *)
C27_KeyIdentifiesCell ==
    /\ ret.op = "get_grid_hash" =>
          \A x, y, z \in KeyCoordinates :
              (get_grid_hash(x, y, z, fusion_threshold) = ret.result[1])
                  <=> (CellAt(<<x, y, z>>, fusion_threshold)
                          = CellAt(ret.arg, fusion_threshold))
    /\ ret.op = "nearby_hash" =>
          LET cell == CellAt(ret.before, fusion_threshold)
          IN ret.result[1] = GridKey(cell[1] + ret.arg[1], cell[2] + ret.arg[2],
                                     cell[3] + ret.arg[3])

(* C28 (FuseSpec): the grid search decides as a scan of the whole list      *)
(* would: a thermal or optical candidate is appended if and only if no      *)
(* target it may merge into (any target for an optical candidate, a target  *)
(* still typed Radar for a thermal one) is within fusion_threshold, and the *)
(* result is as long as the result of the linear-scan draft.                *)
C28_GridDecidesAsLinearScan ==
    ret.op = "fuseSensors" =>
        /\ \A k \in 1..Len(ret.srcs) :
              LET e == ret.srcs[k]
              IN e.pass \in {"THERMAL", "OPTICAL"} =>
                    ((e.into = 0) <=>
                        (LinearFirstMatch(ListAt(ret.srcs, k - 1), e.cand, e.pass,
                                          fusion_threshold) = 0))
        /\ Len(ret.result) = Len(fuseSensorsLinear(radar_targets, thermal_targets,
                                                   optical_targets, noise_threshold,
                                                   fusion_threshold))

(* C29 (StatusSpec): a detect call for a sensor that is not ACTIVE returns  *)
(* an empty list and leaves the id counter, the last metrics, the result    *)
(* list and the History Table as they were; setSensorStatus changes the     *)
(* status of no sensor but the one named, and of none when called with      *)
(* FUSED.                                                                   *)
C29_InactiveSensorDetectsNothing ==
    [][/\ (/\ ret' # ret
           /\ ret'.op = "detect"
           /\ \/ ret'.arg = "RADAR" /\ radar_status # "ACTIVE"
              \/ ret'.arg = "THERMAL" /\ thermal_status # "ACTIVE"
              \/ ret'.arg = "OPTICAL" /\ optical_status # "ACTIVE")
          => /\ ret'.result = <<>>
             /\ current_targets' = <<>>
             /\ UNCHANGED <<next_target_id, last_metrics, detected_targets, target_history>>
       /\ (ret' # ret /\ ret'.op = "setSensorStatus")
          => /\ ret'.arg # "RADAR" => UNCHANGED radar_status
             /\ ret'.arg # "THERMAL" => UNCHANGED thermal_status
             /\ ret'.arg # "OPTICAL" => UNCHANGED optical_status]_vars

(* A detect call with readings on a sensor switched off, on a detector that *)
(* has detected before: nothing returned, metrics and counter of the        *)
(* earlier call still there.                                                *)
C29_Witness ==
    /\ ret.op = "detect"
    /\ ret.arg = "RADAR"
    /\ radar_status # "ACTIVE"
    /\ ret.before # <<>>
    /\ ret.result = <<>>
    /\ last_metrics.targets_detected > 0
    /\ next_target_id > 1


----------------------------------------------------------------------------
(* C30: clearTargets empties the stored list and the History Table and      *)
(* resets the id counter to 1, and leaves the thresholds, the sensor        *)
(* statuses, last_metrics and total_detections as they were; in every other *)
(* step the stored list grows by exactly the addTarget calls made, counted  *)
(* by total_detections, so that between clears getTargetCount is the number *)
(* of addTarget calls since the last clear; total_detections never          *)
(* decreases.                                                               *)
ClearStep ==
    /\ ret'.op = "clearTargets"
    /\ call.state = "idle"
    /\ call'.state = "idle"
    /\ <<detector, assigned>> # <<detector, assigned>>' \/ ret' # ret

C30_ClearResetsListsOnly ==
    [][/\ total_detections' >= total_detections
       /\ ClearStep
          => /\ getTargetCount(detected_targets') = 0
             /\ target_history' = EmptyHistory
             /\ next_target_id' = 1
             /\ UNCHANGED <<fusion_threshold, noise_threshold, radar_status,
                            thermal_status, optical_status, last_metrics,
                            total_detections>>
       /\ ~ClearStep
          => getTargetCount(detected_targets') - getTargetCount(detected_targets)
                 = total_detections' - total_detections]_vars

C30_Witness ==
    /\ ret.op = "addTarget"
    /\ assigned.retired # {}
    /\ total_detections = 2
    /\ getTargetCount(detected_targets) = 1
    /\ target_history = EmptyHistory
    /\ last_metrics.targets_detected > 0

============================================================================
